---- MODULE Spec2Model ----
(***************************************************************************)
(* Model of app.py: the one-shot loading of the sentiment model at start   *)
(* of the process and the POST /predict handler predict_sentiment, run by  *)
(* NumReq concurrent request threads.                                      *)
(***************************************************************************)
EXTENDS Integers, Sequences, FiniteSets, TLC

(* ---------------------------- bounds ---------------------------------- *)
\* number of request threads the server runs side by side
NumReq == 2
\* the model's scores are the fractions k / ScoreDen, k \in 0..ScoreDen
ScoreDen == 3

(* ----------------------- program constants ---------------------------- *)
\* app.py:49  len(text_input) > 512
MaxTextLen == 512
\* app.py:63  round(prediction['score'], 4)
Places == 4

Threads == 1..NumReq

\* the two labels of distilbert-base-uncased-finetuned-sst-2-english (app.py:17)
Labels == {"POSITIVE", "NEGATIVE"}

\* texts of the exceptions a model call may raise
ExcTexts == {"CUDA out of memory", "tensor size mismatch"}

MsgUnavailable == "Model is not available due to a startup error"
MsgNotJson == "Request must be JSON"
MsgBadText == "Missing or invalid 'text' field in JSON payload"
MsgTooLong == "Input text exceeds maximum length of 512 characters"
MsgInternal == "An internal error occurred during prediction"

(* ----------------------- request contents ----------------------------- *)
\* A JSON value found under the key 'text' (or its absence).  A string is
\* represented by its length in characters.
TextLens == {0, 1, MaxTextLen, MaxTextLen + 1}

TextValues ==
    {[type |-> t, len |-> 0, num |-> 0] : t \in {"missing", "null"}}
    \cup {[type |-> "int", len |-> 0, num |-> n] : n \in {0, 7}}
    \cup {[type |-> "str", len |-> n, num |-> 0] : n \in TextLens}

NoText == [type |-> "missing", len |-> 0, num |-> 0]

\* The body of the request: bytes that do not parse as JSON, or a JSON
\* document that is an array, or an object (with or without 'text').
Bodies ==
    {[kind |-> k, text |-> NoText] : k \in {"invalid", "array"}}
    \cup {[kind |-> "object", text |-> t] : t \in TextValues}

ContentTypes == {"application/json", "text/plain"}

\* Requests declared as JSON carry every body; requests with another content
\* type carry a sample of them (unparseable and so without 'text',
\* over-length, valid).
Contents ==
    {[ctype |-> "application/json", body |-> b] : b \in Bodies}
    \cup {[ctype |-> "text/plain", body |-> b] :
            b \in {x \in Bodies : \/ x.kind = "invalid"
                                  \/ /\ x.kind = "object"
                                     /\ x.text.type = "str"
                                     /\ x.text.len \in {1, MaxTextLen + 1}}}

NoContent == [ctype |-> "", body |-> [kind |-> "none", text |-> NoText]]

(* ------------------------- model outputs ------------------------------ *)
\* One element of the list the pipeline returns: a dict that may lack
\* 'label' or 'score', and whose score may be a non-number.
WellFormed ==
    {[label |-> l, score |-> "num", k |-> k] : l \in Labels, k \in 0..ScoreDen}

Malformed ==
    { [label |-> "<none>", score |-> "num", k |-> ScoreDen],
      [label |-> "POSITIVE", score |-> "<none>", k |-> 0],
      [label |-> "POSITIVE", score |-> "str", k |-> 0] }

Elements == WellFormed \cup Malformed

Other(l) == IF l = "POSITIVE" THEN "NEGATIVE" ELSE "POSITIVE"

\* the lower-ranked element that follows e when both labels are returned:
\* the other label with the rest of the probability
LowerRanked(e) == [label |-> Other(e.label), score |-> "num", k |-> ScoreDen - e.k]

\* the list returned: empty, one element, or both labels ranked
Outputs ==
    {<< >>} \cup {<<e>> : e \in Elements}
    \cup {<<e, LowerRanked(e)>> : e \in {w \in WellFormed : w.k = ScoreDen - 1}}

\* What a call of the pipeline does: raise with some text, or return a list.
ModelOutcomes ==
    {[kind |-> "raise", text |-> t, out |-> << >>] : t \in ExcTexts}
    \cup {[kind |-> "return", text |-> "", out |-> o] : o \in Outputs}

NoOutcome == [kind |-> "none", text |-> "", out |-> << >>]

(* --------------------------- responses -------------------------------- *)
NoResp == [status |-> 0, body |-> [none |-> TRUE]]

ErrorResponse(msg, status) == [status |-> status, body |-> [error |-> msg]]

VARIABLES
    startup,             \* "loading" until the module-level code has run
    sentiment_analyzer,  \* the global: "unset", "None" or "pipeline"
    startlog,            \* what the loader logged
    pc,                  \* per thread: the statement it is at
    req,                 \* per thread: the request being handled
    data,                \* per thread: request.get_json()
    text_input,          \* per thread: data.get('text')
    outcome,             \* per thread: what the model call did
    exc,                 \* per thread: exception that left the handler
    resp,                \* per thread: the response sent
    trace                \* per thread: checks, log events, model call, response

vars == <<startup, sentiment_analyzer, startlog, pc, req, data, text_input,
          outcome, exc, resp, trace>>

(* ------------------------ pure helpers -------------------------------- *)
\* request.is_json: decided by the declared content type alone
is_json(ctype) == ctype = "application/json"

\* the check left out: an absent handle is taken for a usable one
UnavailableNever(h) == FALSE

\* `not sentiment_analyzer` (app.py:32): None is falsy, a pipeline is not
Unavailable(h) == h # "pipeline"

\* request.get_json() on a body that does not parse aborts with BadRequest
Parses(body) == body.kind # "invalid"

\* data.get exists on a dict only
HasGet(d) == d.kind = "object"

\* Python truthiness of the value read from the payload (None when missing)
Falsy(v) ==
    \/ v.type \in {"missing", "null"}
    \/ v.type = "int" /\ v.num = 0
    \/ v.type = "str" /\ v.len = 0

\* `not text_input or not isinstance(text_input, str)` (app.py:45)
InvalidText(v) == Falsy(v) \/ v.type # "str"

\* `len(text_input) > 512` with the comparison off by one
TooLongInclusive(v) == v.len >= MaxTextLen

\* `len(text_input) > 512` (app.py:49)
TooLong(v) == v.len > MaxTextLen

RECURSIVE Pow10(_)
Pow10(n) == IF n = 0 THEN 1 ELSE 10 * Pow10(n - 1)

\* round(x, 4) replaced by truncation
TruncScore(k) == (k * Pow10(Places)) \div ScoreDen

\* round(k / ScoreDen, 4), in units of 10^-4: the nearest multiple, a tie
\* going to the even one
RoundScore(k) ==
    LET num == k * Pow10(Places)
        fl  == num \div ScoreDen
        rem == num % ScoreDen
    IN  IF 2 * rem < ScoreDen THEN fl
        ELSE IF 2 * rem > ScoreDen THEN fl + 1
        ELSE IF fl % 2 = 0 THEN fl ELSE fl + 1

\* the 500 body built from the exception text
LeakyErrorBody(e) == [error |-> e]

\* the body of the 500 response (app.py:67): the exception e is not used
InternalErrorBody(e) == [error |-> MsgInternal]

\* the statements of the handler in reverse availability/JSON order
OrderJsonFirst ==
    <<"json", "avail", "get_json", "get_text", "check_text", "check_len", "infer">>

\* the statements of predict_sentiment in program order (app.py:32-56)
Order ==
    <<"avail", "json", "get_json", "get_text", "check_text", "check_len", "infer">>

StepAfter(s) ==
    LET i == CHOOSE j \in 1..Len(Order) : Order[j] = s IN Order[i + 1]

\* a handler that reloads the model when it is done with a request
HandlerReloads ==
    /\ sentiment_analyzer' = "pipeline"
    /\ UNCHANGED <<startup, startlog>>

\* predict_sentiment has no assignment to a global: the loader's state is
\* only read
HandlerGlobals == UNCHANGED <<startup, sentiment_analyzer, startlog>>

Init ==
    /\ startup = "loading"
    /\ sentiment_analyzer = "unset"
    /\ startlog = << >>
    /\ pc = [r \in Threads |-> "idle"]
    /\ req = [r \in Threads |-> NoContent]
    /\ data = [r \in Threads |-> NoContent.body]
    /\ text_input = [r \in Threads |-> NoText]
    /\ outcome = [r \in Threads |-> NoOutcome]
    /\ exc = [r \in Threads |-> "none"]
    /\ resp = [r \in Threads |-> NoResp]
    /\ trace = [r \in Threads |-> << >>]

reqvars == <<pc, req, data, text_input, outcome, exc, resp, trace>>

(* ------------------------- model loader ------------------------------- *)
\* app.py:14-19  pipeline(...) succeeds
LoadOk ==
    /\ startup = "loading"
    /\ sentiment_analyzer' = "pipeline"
    /\ startlog' = <<"log:info">>
    /\ startup' = "ready"
    /\ UNCHANGED reqvars

\* app.py:20-23  pipeline(...) raises
LoadFail ==
    /\ startup = "loading"
    /\ sentiment_analyzer' = "None"
    /\ startlog' = <<"log:error">>
    /\ startup' = "ready"
    /\ UNCHANGED reqvars

(* ------------------------ predict_sentiment --------------------------- *)
\* the handler returns `response` after the events `evs`
Return(r, response, evs) ==
    /\ resp' = [resp EXCEPT ![r] = response]
    /\ trace' = [trace EXCEPT ![r] = @ \o evs \o <<"respond">>]
    /\ pc' = [pc EXCEPT ![r] = "done"]

\* the handler goes on to its next statement after the events `evs`
Continue(r, evs) ==
    /\ trace' = [trace EXCEPT ![r] = @ \o evs]
    /\ pc' = [pc EXCEPT ![r] = StepAfter(pc[r])]
    /\ UNCHANGED resp

\* an exception leaves the handler
Raise(r, e, evs) ==
    /\ exc' = [exc EXCEPT ![r] = e]
    /\ trace' = [trace EXCEPT ![r] = @ \o evs]
    /\ pc' = [pc EXCEPT ![r] = "raised"]
    /\ UNCHANGED resp

\* Flask routes a POST /predict to the handler (app.py:25-26)
Arrive(r) ==
    /\ startup = "ready"
    /\ pc[r] = "idle"
    /\ \E c \in Contents : req' = [req EXCEPT ![r] = c]
    /\ pc' = [pc EXCEPT ![r] = Order[1]]
    /\ UNCHANGED <<data, text_input, outcome, exc, resp, trace>>
    /\ HandlerGlobals

\* app.py:32-33
CheckAvail(r) ==
    /\ pc[r] = "avail"
    /\ IF Unavailable(sentiment_analyzer)
       THEN Return(r, ErrorResponse(MsgUnavailable, 503), <<"check:avail">>)
       ELSE Continue(r, <<"check:avail">>)
    /\ UNCHANGED <<req, data, text_input, outcome, exc>>
    /\ HandlerGlobals

\* app.py:37-39
CheckJson(r) ==
    /\ pc[r] = "json"
    /\ IF ~is_json(req[r].ctype)
       THEN Return(r, ErrorResponse(MsgNotJson, 400),
                   <<"check:json", "log:warning">>)
       ELSE Continue(r, <<"check:json">>)
    /\ UNCHANGED <<req, data, text_input, outcome, exc>>
    /\ HandlerGlobals

\* app.py:41  data = request.get_json()
GetJson(r) ==
    /\ pc[r] = "get_json"
    /\ IF Parses(req[r].body)
       THEN /\ data' = [data EXCEPT ![r] = req[r].body]
            /\ Continue(r, <<"get_json">>)
            /\ UNCHANGED exc
       ELSE /\ Raise(r, "BadRequest", <<"get_json">>)
            /\ UNCHANGED data
    /\ UNCHANGED <<req, text_input, outcome>>
    /\ HandlerGlobals

\* app.py:42  text_input = data.get('text')
GetText(r) ==
    /\ pc[r] = "get_text"
    /\ IF HasGet(data[r])
       THEN /\ text_input' = [text_input EXCEPT ![r] = data[r].text]
            /\ Continue(r, <<"get_text">>)
            /\ UNCHANGED exc
       ELSE /\ Raise(r, "AttributeError", <<"get_text">>)
            /\ UNCHANGED text_input
    /\ UNCHANGED <<req, data, outcome>>
    /\ HandlerGlobals

\* app.py:45-47
CheckText(r) ==
    /\ pc[r] = "check_text"
    /\ IF InvalidText(text_input[r])
       THEN Return(r, ErrorResponse(MsgBadText, 400),
                   <<"check:text", "log:warning">>)
       ELSE Continue(r, <<"check:text">>)
    /\ UNCHANGED <<req, data, text_input, outcome, exc>>
    /\ HandlerGlobals

\* app.py:49-51
CheckLen(r) ==
    /\ pc[r] = "check_len"
    /\ IF TooLong(text_input[r])
       THEN Return(r, ErrorResponse(MsgTooLong, 400),
                   <<"check:len", "log:warning">>)
       ELSE Continue(r, <<"check:len">>)
    /\ UNCHANGED <<req, data, text_input, outcome, exc>>
    /\ HandlerGlobals

\* The statements of the try block up to the first one that raises, as the
\* events they leave; "" when none raises.
TryEvents(h, o) ==
    IF h # "pipeline" \/ o.kind = "raise"
    THEN <<"log:info", "call:model">>                 \* line 56 raises
    ELSE IF o.out = << >>
    THEN <<"log:info", "call:model">>                 \* line 57 IndexError
    ELSE <<"log:info", "call:model", "log:info">>     \* line 58 reached

\* does the try block of app.py:54-64 raise?
TryRaises(h, o) ==
    \/ h # "pipeline"
    \/ o.kind = "raise"
    \/ o.out = << >>
    \/ o.out[1].label = "<none>"
    \/ o.out[1].score # "num"

\* the text of the exception the try block raises
TryExcText(h, o) ==
    IF h # "pipeline" THEN "'NoneType' object is not callable"
    ELSE IF o.kind = "raise" THEN o.text
    ELSE IF o.out = << >> THEN "list index out of range"
    ELSE IF o.out[1].label = "<none>" THEN "'label'"
    ELSE IF o.out[1].score = "<none>" THEN "'score'"
    ELSE "type str doesn't define __round__ method"

\* app.py:61-64
PredictionResult(prediction) ==
    [status |-> 200,
     body |-> [sentiment |-> prediction.label,
               score |-> RoundScore(prediction.k)]]

\* app.py:54-67
Infer(r) ==
    /\ pc[r] = "infer"
    /\ \E o \in ModelOutcomes :
         /\ outcome' = [outcome EXCEPT ![r] =
                IF sentiment_analyzer = "pipeline" THEN o ELSE NoOutcome]
         /\ IF TryRaises(sentiment_analyzer, o)
            THEN Return(r,
                    [status |-> 500,
                     body |-> InternalErrorBody(TryExcText(sentiment_analyzer, o))],
                    TryEvents(sentiment_analyzer, o) \o <<"log:error">>)
            ELSE Return(r, PredictionResult(o.out[1]),
                        TryEvents(sentiment_analyzer, o))
    /\ UNCHANGED <<req, data, text_input, exc>>
    /\ HandlerGlobals

\* Flask turns an exception that left the handler into a response of its
\* own: an HTTPException is its own response, anything else is logged and
\* answered with 500 Internal Server Error
Dispatch(r) ==
    /\ pc[r] = "raised"
    /\ IF exc[r] = "BadRequest"
       THEN Return(r, [status |-> 400, body |-> [html |-> "Bad Request"]], << >>)
       ELSE Return(r, [status |-> 500,
                       body |-> [html |-> "Internal Server Error"]],
                   <<"log:error">>)
    /\ UNCHANGED <<req, data, text_input, outcome, exc>>
    /\ HandlerGlobals

\* the thread is given back to the server and may take the next request
Release(r) ==
    /\ pc[r] = "done"
    /\ pc' = [pc EXCEPT ![r] = "idle"]
    /\ req' = [req EXCEPT ![r] = NoContent]
    /\ data' = [data EXCEPT ![r] = NoContent.body]
    /\ text_input' = [text_input EXCEPT ![r] = NoText]
    /\ outcome' = [outcome EXCEPT ![r] = NoOutcome]
    /\ exc' = [exc EXCEPT ![r] = "none"]
    /\ resp' = [resp EXCEPT ![r] = NoResp]
    /\ trace' = [trace EXCEPT ![r] = << >>]
    /\ HandlerGlobals

Next ==
    \/ LoadOk
    \/ LoadFail
    \/ \E r \in Threads : Arrive(r)
    \/ \E r \in Threads : CheckAvail(r)
    \/ \E r \in Threads : CheckJson(r)
    \/ \E r \in Threads : GetJson(r)
    \/ \E r \in Threads : GetText(r)
    \/ \E r \in Threads : CheckText(r)
    \/ \E r \in Threads : CheckLen(r)
    \/ \E r \in Threads : Infer(r)
    \/ \E r \in Threads : Dispatch(r)
    \/ \E r \in Threads : Release(r)

Spec == Init /\ [][Next]_vars

(* ======================================================================= *)
(* Properties                                                              *)
(* ======================================================================= *)
Done(r) == pc[r] = "done"

Available == sentiment_analyzer = "pipeline"

\* the checks of the contract, in the order the contract gives them
Checks == <<"check:avail", "check:json", "check:text", "check:len", "call:model">>

IsCheck(e) == \E i \in 1..Len(Checks) : Checks[i] = e

ChecksOf(t) == SelectSeq(t, IsCheck)

IsLog(e) == e \in {"log:info", "log:warning", "log:error"}

Count(t, e) == Cardinality({i \in 1..Len(t) : t[i] = e})

Occurs(t, e) == \E i \in 1..Len(t) : t[i] = e

\* the request of thread r is declared as JSON and its body is an object
\* whose 'text' is a string
StringText(r) ==
    /\ req[r].ctype = "application/json"
    /\ req[r].body.kind = "object"
    /\ req[r].body.text.type = "str"

\* a valid input: model available, JSON, 'text' a string of 1..512 characters
ValidInput(r) ==
    /\ Available
    /\ StringText(r)
    /\ req[r].body.text.len >= 1
    /\ req[r].body.text.len <= 512

\* the model returned a list whose first element has a label and a number
\* as score
GoodOutput(r) ==
    /\ outcome[r].kind = "return"
    /\ Len(outcome[r].out) >= 1
    /\ outcome[r].out[1].label \in Labels
    /\ outcome[r].out[1].score = "num"

\* the model call or the handling of its output failed
FailedInference(r) ==
    /\ Occurs(trace[r], "call:model")
    /\ \/ outcome[r].kind = "raise"
       \/ outcome[r].out = << >>
       \/ outcome[r].out[1].label \notin Labels
       \/ outcome[r].out[1].score # "num"

(* ----------------------------------------------------------------------- *)
\* C1: every request ends in exactly one response that is either 200 with
\* `sentiment` and `score`, or 503/400/500 with a single `error` string,
\* and no exception leaves the handler.
C1_OneWellFormedResponse ==
    \A r \in Threads :
        /\ pc[r] # "raised"
        /\ Done(r) =>
             /\ exc[r] = "none"
             /\ Count(trace[r], "respond") = 1
             /\ \/ /\ resp[r].status = 200
                   /\ DOMAIN resp[r].body = {"sentiment", "score"}
                \/ /\ resp[r].status \in {503, 400, 500}
                   /\ DOMAIN resp[r].body = {"error"}

(* ----------------------------------------------------------------------- *)
\* The first check of the contract that the request of thread r fails, as
\* <<position in Checks, response>>; position 0 when it fails none of the
\* four checks that come before the model call.
FirstFailing(r) ==
    IF ~Available THEN <<1, ErrorResponse(MsgUnavailable, 503)>>
    ELSE IF req[r].ctype # "application/json"
    THEN <<2, ErrorResponse(MsgNotJson, 400)>>
    ELSE IF /\ req[r].body.kind = "object"
            /\ \/ req[r].body.text.type # "str"
               \/ req[r].body.text.len = 0
    THEN <<3, ErrorResponse(MsgBadText, 400)>>
    ELSE IF req[r].body.kind = "object" /\ req[r].body.text.len > 512
    THEN <<4, ErrorResponse(MsgTooLong, 400)>>
    ELSE <<0, NoResp>>

AbsentMeans503 ==
    sentiment_analyzer = "None" =>
        \A r \in Threads :
            /\ pc[r] \in {"idle", "avail", "done"}
            /\ Done(r) =>
                 /\ resp[r] = ErrorResponse(MsgUnavailable, 503)
                 /\ trace[r] = <<"check:avail", "respond">>

\* C3: once loading has failed, every request is answered 503 "Model is not
\* available due to a startup error" after the availability check alone,
\* and the handle stays absent.
C3_AbsentForever ==
    /\ []AbsentMeans503
    /\ [][sentiment_analyzer = "None" => sentiment_analyzer' = "None"]_vars

\* with the handle absent, a well-formed JSON request and a request that is
\* not JSON have both been answered
C3_Witness ==
    /\ sentiment_analyzer = "None"
    /\ \E r, s \in Threads :
         /\ Done(r) /\ Done(s)
         /\ req[r].ctype = "application/json"
         /\ req[r].body.text.type = "str" /\ req[r].body.text.len = 1
         /\ req[s].ctype = "text/plain"
         /\ resp[r].status = 503 /\ resp[s].status = 503

(* ----------------------------------------------------------------------- *)
\* C4: with the model available, a JSON request whose `text` is missing,
\* null, not a string or empty is answered 400 "Missing or invalid 'text'
\* field in JSON payload".
C4_BadTextIs400 ==
    \A r \in Threads :
        ( /\ Done(r)
          /\ Available
          /\ req[r].ctype = "application/json"
          /\ req[r].body.kind # "invalid"
          /\ \/ req[r].body.text.type # "str"
             \/ req[r].body.text.len = 0 )
        => resp[r] = ErrorResponse(MsgBadText, 400)

(* ----------------------------------------------------------------------- *)
\* C5: with the model available, a request whose body is not valid JSON or
\* that lacks the JSON content type is answered 400 "Request must be JSON",
\* never 500.
C5_NotJsonIs400 ==
    \A r \in Threads :
        ( /\ Done(r)
          /\ Available
          /\ \/ req[r].ctype # "application/json"
             \/ req[r].body.kind = "invalid" )
        => resp[r] = ErrorResponse(MsgNotJson, 400)

(* ----------------------------------------------------------------------- *)
\* C6: with the model available and `text` a string, more than 512
\* characters are answered 400 "Input text exceeds maximum length of 512
\* characters" without a model call, and exactly 512 characters pass the
\* length check and reach the model.
C6_LengthBound ==
    \A r \in Threads :
        Done(r) /\ Available /\ StringText(r) =>
            /\ req[r].body.text.len > 512 =>
                 /\ resp[r] = ErrorResponse(MsgTooLong, 400)
                 /\ ~Occurs(trace[r], "call:model")
            /\ req[r].body.text.len = 512 =>
                 /\ Occurs(trace[r], "check:len")
                 /\ Occurs(trace[r], "call:model")
                 /\ resp[r] # ErrorResponse(MsgTooLong, 400)

\* a text of 512 characters and a text of 513 characters have been answered
C6_Witness ==
    \E r, s \in Threads :
        /\ Available /\ Done(r) /\ Done(s)
        /\ StringText(r) /\ req[r].body.text.len = 512
        /\ resp[r].status = 200
        /\ StringText(s) /\ req[s].body.text.len = 513
        /\ resp[s].status = 400

(* ----------------------------------------------------------------------- *)
\* the 200 response of thread r is built from the first element of the
\* model's output: its label, and its score within half a unit of the
\* fourth decimal place, between 0 and 1
FirstElementResponse(r) ==
    /\ resp[r].status = 200
    /\ DOMAIN resp[r].body = {"sentiment", "score"}
    /\ resp[r].body.sentiment = outcome[r].out[1].label
    /\ resp[r].body.sentiment \in Labels
    /\ resp[r].body.score \in 0..10000
    /\ LET d == resp[r].body.score * ScoreDen - outcome[r].out[1].k * 10000
       IN  2 * d <= ScoreDen /\ -2 * d <= ScoreDen

\* C7 (as stated): every valid input is answered 200 with the label and the
\* rounded score of the first element of the model's output.
C7_ValidIs200 ==
    \A r \in Threads :
        Done(r) /\ ValidInput(r) => FirstElementResponse(r)

\* C7 (amended): a valid input for which the model returns a list whose
\* first element has a label and a numeric score is answered 200 with that
\* label and that score rounded to 4 decimal places, whatever follows the
\* first element; any other valid input is answered 500.
C7_ValidGoodOutputIs200 ==
    \A r \in Threads :
        Done(r) /\ ValidInput(r) =>
            /\ GoodOutput(r) => FirstElementResponse(r)
            /\ ~GoodOutput(r) => resp[r].status = 500
            /\ \A s \in Threads :
                 ( /\ Done(s) /\ ValidInput(s)
                   /\ GoodOutput(r) /\ GoodOutput(s)
                   /\ outcome[r].out[1] = outcome[s].out[1] )
                 => resp[r] = resp[s]

\* two valid inputs were answered 200 from outputs with the same first
\* element, one of them followed by a second element, and the score was
\* rounded up
C7_Witness ==
    \E r, s \in Threads :
        /\ Done(r) /\ Done(s) /\ ValidInput(r) /\ ValidInput(s)
        /\ GoodOutput(r) /\ GoodOutput(s)
        /\ Len(outcome[r].out) = 1 /\ Len(outcome[s].out) = 2
        /\ outcome[r].out[1] = outcome[s].out[1]
        /\ outcome[s].out[2].label # outcome[s].out[1].label
        /\ resp[r].body.score * ScoreDen > outcome[r].out[1].k * 10000
        /\ resp[r].status = 200

(* ----------------------------------------------------------------------- *)
\* C8: when the model call or the handling of its output fails, the
\* response is 500 with exactly "An internal error occurred during
\* prediction", the same for every such failure.
C8_GenericInternalError ==
    \A r \in Threads :
        Done(r) /\ FailedInference(r) =>
            /\ resp[r] = ErrorResponse(MsgInternal, 500)
            /\ \A s \in Threads :
                 Done(s) /\ FailedInference(s) => resp[s] = resp[r]

\* two requests failed with different exception texts
C8_Witness ==
    \E r, s \in Threads :
        /\ Done(r) /\ Done(s)
        /\ outcome[r].kind = "raise" /\ outcome[s].kind = "raise"
        /\ outcome[r].text # outcome[s].text
        /\ resp[r].status = 500 /\ resp[s].status = 500

(* ----------------------------------------------------------------------- *)
\* C9: every response other than 200 is preceded by a log event of its
\* request.
C9_FailureLogsFirst ==
    \A r \in Threads :
        Done(r) /\ resp[r].status # 200 =>
            \E i, j \in 1..Len(trace[r]) :
                i < j /\ IsLog(trace[r][i]) /\ trace[r][j] = "respond"

(* ----------------------------------------------------------------------- *)
\* the handle is the one the loader stored
HandleAsLoaded ==
    startup = "ready" =>
        \/ sentiment_analyzer = "pipeline" /\ startlog = <<"log:info">>
        \/ sentiment_analyzer = "None" /\ startlog = <<"log:error">>

\* requests with the same content, on which the model does the same, get
\* the same response
SameRequestSameResponse ==
    \A r, s \in Threads :
        Done(r) /\ Done(s) /\ req[r] = req[s] /\ outcome[r] = outcome[s]
            => resp[r] = resp[s]

\* C10: the handle is assigned once, by the loader, and no step of any
\* request thread changes it, whatever the interleaving; a response depends
\* on the handle and the request's own content alone.
C10_HandleReadOnly ==
    /\ []HandleAsLoaded
    /\ []SameRequestSameResponse
    /\ [][sentiment_analyzer' # sentiment_analyzer
            => startup = "loading" /\ startup' = "ready"]_vars

\* one thread has answered 500 while another, which started on the same
\* handle, is in the middle of its checks
C10_Witness ==
    \E r, s \in Threads :
        /\ Done(r) /\ resp[r].status = 500
        /\ pc[s] = "check_len"
        /\ sentiment_analyzer = "pipeline"

====
